---- MODULE Spec2Model ----
(***************************************************************************)
(* Model of the interactive Christmas tree: the wish panel (UI.tsx,        *)
(* geminiService.ts, App), the blend driver and the layers that consume    *)
(* its progress (Tree.tsx), and the procedural geometry generators         *)
(* (Tree.tsx).                                                             *)
(*                                                                         *)
(* Strings are sequences of tokens; the token " " is whitespace.  A        *)
(* nullable value is Null (<<>>) or Some(v) (<<v>>).                       *)
(* Real numbers are fixed-point integers: progress and frame deltas in     *)
(* units of 1/Scale, lengths in the units named at their definitions.      *)
(***************************************************************************)
EXTENDS Integers, Sequences, FiniteSets, TLC

----------------------------------------------------------------------------
(* Bounds of the model *)

\* submits of a non-empty prompt explored in one behaviour
MaxRequests == 2

----------------------------------------------------------------------------
(* Strings and nullable values *)

Null == <<>>

Some(v) == <<v>>

WS == " "

RECURSIVE TrimStart(_)
TrimStart(s) ==
    IF s = <<>> THEN s
    ELSE IF Head(s) = WS THEN TrimStart(Tail(s)) ELSE s

RECURSIVE TrimEnd(_)
TrimEnd(s) ==
    IF s = <<>> THEN s
    ELSE IF s[Len(s)] = WS THEN TrimEnd(SubSeq(s, 1, Len(s) - 1)) ELSE s

\* String.prototype.trim
Trim(s) == TrimEnd(TrimStart(s))

\* what the user can type into the input
Prompts == { <<>>, <<WS>>, <<"Snow">>, <<WS, "Gold", WS>> }

\* values of process.env.API_KEY: unset, empty, set
EnvValues == { Null, Some(""), Some("key") }

\* what the text-generation service can do with a call
Outcomes ==
    { [kind |-> "raise"], [kind |-> "notext"] }
    \cup { [kind |-> "text", text |-> t] :
             t \in { <<>>, <<WS>>, <<"Radiance">>, <<WS, "Glow", WS>> } }

MissingKeyMsg == <<"Experience the magic of the holidays. (API Key missing)">>

DefaultWishMsg == <<"May your holidays be filled with golden moments.">>

ErrorWishMsg == <<"May elegance guide your way into the New Year.">>

MisalignedMsg == <<"The stars are misaligned. Try again.">>

----------------------------------------------------------------------------
(* State *)

VARIABLES
    apiKey,       \* geminiService.ts: module constant read at start
    calls,        \* outbound calls issued to the text-generation service
    prompt,       \* UI: the input's value
    wishState,    \* UI: [isLoading, text, error]
    requests,     \* one record per call of generateLuxuryWish, in submit order
    arrived,      \* request ids in the order their continuations ran
    isFormed,     \* App: the formed flag
    progressRef,  \* Tree: progressRef.current
    layerProgress,\* the progress prop the layers got at Tree's last render
    uProgress,    \* FoliageLayer: the shader's uProgress uniform
    ornProgress,  \* OrnamentLayer: the progress its last frame placed with
    ticks,        \* frames since the formed flag last changed
    frames,       \* frames since mount
    gen           \* the geometry generators: loop position and last element

panelVars == << apiKey, calls, prompt, wishState, requests, arrived >>

blendVars == << progressRef, layerProgress, uProgress, ornProgress, ticks, frames >>

vars == << apiKey, calls, prompt, wishState, requests, arrived, isFormed,
           progressRef, layerProgress, uProgress, ornProgress, ticks, frames,
           gen >>

IdleWish == [isLoading |-> FALSE, text |-> Null, error |-> Null]

\* process.env.API_KEY || ''
ApiKeyOf(env) == IF env = Null \/ env[1] = "" THEN "" ELSE env[1]

\* the generators before their first iteration: Tree renders first and calls
\* generateOrnaments
GenStart == [phase |-> "ornaments", i |-> 0, written |-> FALSE,
             treePos |-> <<0, 0, 0>>, scatterPos |-> <<0, 0, 0>>]

Init ==
    /\ \E env \in EnvValues : apiKey = ApiKeyOf(env)
    /\ calls = 0
    /\ prompt = <<>>
    /\ wishState = IdleWish
    /\ requests = <<>>
    /\ arrived = <<>>
    /\ isFormed = FALSE
    /\ progressRef = 0
    /\ layerProgress = 0
    /\ uProgress = 0
    /\ ornProgress = 0
    /\ ticks = 0
    /\ frames = 0
    /\ gen = GenStart

----------------------------------------------------------------------------
(* The wish panel: services/geminiService.ts, components/UI.tsx, App *)

\* A promise of generateLuxuryWish: pending, fulfilled with a string, rejected
Pending == [state |-> "pending", value |-> <<>>]

Fulfilled(v) == [state |-> "fulfilled", value |-> v]

Rejected == [state |-> "rejected", value |-> <<>>]

\* what the service did with a request's call: nothing yet, or never called
NoOutcome == [kind |-> "none"]

\* A request whose promise has settled has its continuation (the code after
\* the await of handleGenerateWish) queued as a microtask; microtasks run
\* before any other event, frame or response is handled.
MicrotaskPending == \E id \in DOMAIN requests : requests[id].status = "settled"

\* generateLuxuryWish, the try/catch around the outbound call: how the promise
\* settles for each thing the service can do
generateLuxuryWishSettle_Rethrow(outcome) ==
    IF outcome.kind = "raise" THEN Rejected
    ELSE IF outcome.kind = "notext" THEN Fulfilled(DefaultWishMsg)
    ELSE IF Trim(outcome.text) # <<>> THEN Fulfilled(Trim(outcome.text))
    ELSE Fulfilled(DefaultWishMsg)

generateLuxuryWishSettle(outcome) ==
    IF outcome.kind = "raise" THEN Fulfilled(ErrorWishMsg)
    ELSE IF outcome.kind = "notext" THEN Fulfilled(DefaultWishMsg)
    ELSE IF Trim(outcome.text) # <<>> THEN Fulfilled(Trim(outcome.text))
    ELSE Fulfilled(DefaultWishMsg)

\* generateLuxuryWish up to its first suspension: without a key the promise is
\* fulfilled at once and no call is made; with one the call goes out
generateLuxuryWish_NoKeyCheck(userInput) ==
    /\ requests' = Append(requests,
           [input |-> userInput, status |-> "inflight", settle |-> Pending,
            outcome |-> NoOutcome])
    /\ calls' = calls + 1

generateLuxuryWish(userInput) ==
    IF apiKey = ""
    THEN /\ requests' = Append(requests,
                [input |-> userInput, status |-> "settled",
                 settle |-> Fulfilled(MissingKeyMsg), outcome |-> NoOutcome])
         /\ calls' = calls
    ELSE /\ requests' = Append(requests,
                [input |-> userInput, status |-> "inflight", settle |-> Pending,
                 outcome |-> NoOutcome])
         /\ calls' = calls + 1

\* App: onIgnite = () => setIsFormed(true).  The state change re-renders
\* Experience and Tree, and Tree hands progressRef.current to its layers.
onIgnite ==
    /\ isFormed' = TRUE
    /\ layerProgress' = IF isFormed THEN layerProgress ELSE progressRef
    /\ ticks' = IF isFormed THEN ticks ELSE 0

\* App: onScatter = () => setIsFormed(false)
onScatter ==
    /\ isFormed' = FALSE
    /\ layerProgress' = IF isFormed THEN progressRef ELSE layerProgress
    /\ ticks' = IF isFormed THEN 0 ELSE ticks

\* UI: the input's onChange
SetPrompt(p) ==
    /\ ~MicrotaskPending
    /\ p # prompt
    /\ prompt' = p
    /\ UNCHANGED << apiKey, calls, wishState, requests, arrived, isFormed,
                    blendVars, gen >>

\* UI: Enter in the input always reaches handleGenerateWish; the Ignite button
\* is disabled while loading and its footer takes no pointer events while a
\* wish text is shown
CanSubmit(via) ==
    \/ via = "enter"
    \/ via = "click" /\ ~wishState.isLoading /\ wishState.text = Null

\* UI: setWishState(prev => ({ ...prev, isLoading: true, error: null }))
SetLoading_ClearText(prev) == [isLoading |-> TRUE, text |-> Null, error |-> Null]

SetLoading(prev) == [prev EXCEPT !.isLoading = TRUE, !.error = Null]

\* UI: handleGenerateWish up to its await
handleGenerateWish_NoTrim(via) ==
    /\ ~MicrotaskPending
    /\ CanSubmit(via)
    /\ IF ~isFormed THEN onIgnite
       ELSE UNCHANGED << isFormed, layerProgress, ticks >>
    /\ IF prompt = <<>>
       THEN UNCHANGED << wishState, requests, calls >>
       ELSE /\ Len(requests) < MaxRequests
            /\ wishState' = SetLoading(wishState)
            /\ generateLuxuryWish(prompt)
    /\ UNCHANGED << apiKey, prompt, arrived, progressRef, uProgress,
                    ornProgress, frames, gen >>

handleGenerateWish(via) ==
    /\ ~MicrotaskPending
    /\ CanSubmit(via)
    /\ IF ~isFormed THEN onIgnite
       ELSE UNCHANGED << isFormed, layerProgress, ticks >>
    /\ IF Trim(prompt) = <<>>
       THEN UNCHANGED << wishState, requests, calls >>
       ELSE /\ Len(requests) < MaxRequests
            /\ wishState' = SetLoading(wishState)
            /\ generateLuxuryWish(prompt)
    /\ UNCHANGED << apiKey, prompt, arrived, progressRef, uProgress,
                    ornProgress, frames, gen >>

\* the text-generation service answers (or fails) a call in flight
Respond(id, outcome) ==
    /\ ~MicrotaskPending
    /\ id \in DOMAIN requests
    /\ requests[id].status = "inflight"
    /\ requests' = [requests EXCEPT ![id].status = "settled",
                                    ![id].outcome = outcome,
                                    ![id].settle = generateLuxuryWishSettle(outcome)]
    /\ UNCHANGED << apiKey, calls, prompt, wishState, arrived, isFormed,
                    blendVars, gen >>

\* UI: handleGenerateWish after its await: the try's second line or the catch
AfterAwait_KeepPrev(prev, settle) ==
    IF settle.state = "fulfilled"
    THEN [prev EXCEPT !.text = IF prev.text = Null THEN Some(settle.value) ELSE prev.text,
                      !.isLoading = FALSE]
    ELSE [isLoading |-> FALSE, text |-> Null, error |-> Some(MisalignedMsg)]

AfterAwait(prev, settle) ==
    IF settle.state = "fulfilled"
    THEN [isLoading |-> FALSE, text |-> Some(settle.value), error |-> Null]
    ELSE [isLoading |-> FALSE, text |-> Null, error |-> Some(MisalignedMsg)]

Continue(id) ==
    /\ id \in DOMAIN requests
    /\ requests[id].status = "settled"
    /\ wishState' = AfterAwait(wishState, requests[id].settle)
    /\ requests' = [requests EXCEPT ![id].status = "done"]
    /\ arrived' = Append(arrived, id)
    /\ UNCHANGED << apiKey, calls, prompt, isFormed, blendVars, gen >>

\* UI: handleReset (the header, or "Make Another Wish")
handleReset ==
    /\ ~MicrotaskPending
    /\ wishState' = IdleWish
    /\ prompt' = <<>>
    /\ onScatter
    /\ UNCHANGED << apiKey, calls, requests, arrived, progressRef, uProgress,
                    ornProgress, frames, gen >>

Submit == \E via \in {"enter", "click"} : handleGenerateWish(via)

Type == \E p \in Prompts : SetPrompt(p)

Response == \E id \in 1..MaxRequests, o \in Outcomes : Respond(id, o)

Microtask == \E id \in 1..MaxRequests : Continue(id)

Next == Type \/ Submit \/ Response \/ Microtask \/ handleReset

Spec == Init /\ [][Next]_vars


----------------------------------------------------------------------------
(* The blend driver and the layers it feeds: components/Tree.tsx *)

\* progress, interpolation factors and frame deltas (seconds) are integers in
\* units of 1/Scale
Scale == 10^6

ScaleRoot == 10^3

\* floor(a * b / Scale), computed in two halves to stay within 32 bits
MulFix(a, b) ==
    (a * (b \div ScaleRoot) + (a * (b % ScaleRoot)) \div ScaleRoot) \div ScaleRoot

\* THREE.MathUtils.lerp(x, y, t) = (1 - t) * x + t * y, no clamping of t
lerp_SubtractTarget(x, y, t) == MulFix(Scale - t, x) - MulFix(t, y)

lerp(x, y, t) == MulFix(Scale - t, x) + MulFix(t, y)

\* delta * 1.2
RateNum == 12

RateDen == 10

BlendFactor(delta) == (delta * RateNum) \div RateDen

\* const target = isFormed ? 1 : 0
Target == IF isFormed THEN Scale ELSE 0

\* frame deltas the render loop can hand to useFrame: 1/60 s, 0.1 s, and 1 s
\* (a frame after the page was in the background)
FrameDeltas == { Scale \div 60, Scale \div 10, Scale }

\* the fixed tick of 1/60 s
FixedDelta == Scale \div 60

\* frames explored when deltas and the flag vary
MaxBlendFrames == 5

\* frames explored at the fixed tick
MaxTicks == 400

\* ticks of 1/60 s after which the progress is within 0.001 of its target
ConvergeTicks == 345

\* One display frame: the useFrame callbacks of the layers (subscribed before
\* their parent's) and then Tree's.  The layers read their progress prop, the
\* value Tree's last render passed them.  uTime and the group's rotation are
\* not modelled.
useFrame(delta) ==
    /\ ~MicrotaskPending
    /\ uProgress' = layerProgress
    /\ ornProgress' = layerProgress
    /\ progressRef' = lerp(progressRef, Target, BlendFactor(delta))
    /\ ticks' = ticks + 1
    /\ frames' = frames + 1
    /\ UNCHANGED << panelVars, isFormed, layerProgress, gen >>

Frame == \E delta \in FrameDeltas : frames < MaxBlendFrames /\ useFrame(delta)

FixedFrame == ticks < MaxTicks /\ useFrame(FixedDelta)

\* the blend under any frame deltas and any changes of the formed flag
NextBlend == Submit \/ handleReset \/ Frame

SpecBlend == Init /\ [][NextBlend]_vars

\* the blend at a fixed tick, the flag held once set
NextFixed == Submit \/ FixedFrame

SpecFixed == Init /\ [][NextFixed]_vars

----------------------------------------------------------------------------
(* The procedural geometry generators: components/Tree.tsx *)

\* Lengths of the tree are in thousandths; a formed position is in units of
\* 1/TreeUnit and a scattered position in units of 1/ScatterUnit, so that the
\* products with the unit vectors below are exact.
FOLIAGE_COUNT == 6000

ORNAMENT_COUNT == 180

TREE_HEIGHT == 14

\* 5.5, in thousandths
TREE_RADIUS == 5500

Milli == 10^3

TreeUnit == 5 * Milli

ScatterUnit == 25 * 10

\* outcomes of Math.random(), a number in [0,1), in thousandths
RandomDraws == { 0, 500, 999 }

\* (cos a, sin a), in fifths, for the angles whose cosine and sine are
\* rational over 5; they stand for the angle of the spiral and for the angles
\* drawn at random
UnitDirs == { <<5, 0>>, <<3, 4>>, <<-4, 3>> }

\* outcomes of Math.random() for which acos(2u - 1) has a rational sine
PhiDraws == { 0, 200 }

\* outcomes of Math.random() for the radius of the shell: its two ends
ShellDraws == { 0, 999 }

ISqrt(n) == CHOOSE r \in 0..n : r * r <= n /\ (r + 1) * (r + 1) > n

\* const y = (t * TREE_HEIGHT) - (TREE_HEIGHT / 2), t = i / count
HeightOf(i, count) ==
    (i * TREE_HEIGHT * Milli) \div count - (TREE_HEIGHT * Milli) \div 2

\* const heightFactor = (TREE_HEIGHT / 2 - y) / TREE_HEIGHT
HeightFactor(y) ==
    (((TREE_HEIGHT * Milli) \div 2 - y) * Milli) \div (TREE_HEIGHT * Milli)

\* 0.15 in "(Math.random() * 0.3) - 0.15", in thousandths
JitterBound == 150

\* const radiusJitter = (Math.random() * 0.3) - 0.15
RadiusJitter_Uncentred(u) == (u * 2 * JitterBound) \div Milli

RadiusJitter(u) == (u * 2 * JitterBound) \div Milli - JitterBound

\* generateFoliageAttributes: treePos of particle i
FoliageTreePos(i, u, dir) ==
    LET y           == HeightOf(i, FOLIAGE_COUNT)
        idealRadius == (HeightFactor(y) * TREE_RADIUS) \div Milli
        r0          == idealRadius + RadiusJitter(u)
        r           == IF r0 < 0 THEN 0 ELSE r0
    IN  << r * dir[1], y * 5, r * dir[2] >>

\* 25 and 20 in "25 + Math.random() * 20", in tenths
ShellMin == 250

ShellSpan == 200

\* const sr = 25 + Math.random() * 20
ShellRadius_Wide(u) == ShellMin + (u * ShellMin) \div Milli

ShellRadius(u) == ShellMin + (u * ShellSpan) \div Milli

\* generateFoliageAttributes: scatterPos of a particle, from sr, sTheta and
\* sPhi = acos(2 * Math.random() - 1)
FoliageScatterPos(uR, dirTheta, uPhi) ==
    LET sr     == ShellRadius(uR)
        cosPhi == ((2 * uPhi - Milli) * 5) \div Milli
        sinPhi == ISqrt(25 - cosPhi * cosPhi)
    IN  << sr * sinPhi * dirTheta[1], sr * sinPhi * dirTheta[2], sr * cosPhi * 5 >>

\* 0.2 in "heightFactor * (TREE_RADIUS + 0.2)", in thousandths
OrnamentOffset == 200

\* generateOrnaments: treePos of ornament i, "slightly outside foliage"
OrnamentTreePos(i, dir) ==
    LET y           == HeightOf(i, ORNAMENT_COUNT)
        idealRadius == (HeightFactor(y) * (TREE_RADIUS + OrnamentOffset)) \div Milli
    IN  << idealRadius * dir[1], y * 5, idealRadius * dir[2] >>

\* const spread = 30; (Math.random() - 0.5) * spread
Spread == 30

ScatterCoord(u) == ((u - 500) * Spread * ScatterUnit) \div Milli

\* generateOrnaments: scatterPos of an ornament
OrnamentScatterPos(ux, uy, uz) ==
    << ScatterCoord(ux), ScatterCoord(uy), ScatterCoord(uz) >>

\* Tree renders first and calls generateOrnaments(180); FoliageLayer renders
\* after it and calls generateFoliageAttributes.  gen holds the loop index and
\* the element the loop body has just written.  The attributes that place
\* nothing (randoms, sizes, type, scale, rotationSpeed, phase) are not modelled.

\* one body of the loop of generateOrnaments
generateOrnaments ==
    /\ gen.phase = "ornaments"
    /\ ~gen.written
    /\ \E dir \in UnitDirs, ux \in RandomDraws, uy \in RandomDraws,
          uz \in RandomDraws :
          gen' = [gen EXCEPT !.written = TRUE,
                             !.treePos = OrnamentTreePos(gen.i, dir),
                             !.scatterPos = OrnamentScatterPos(ux, uy, uz)]
    /\ UNCHANGED << panelVars, isFormed, blendVars >>

\* one body of the loop of generateFoliageAttributes
generateFoliageAttributes ==
    /\ gen.phase = "foliage"
    /\ ~gen.written
    /\ \E u \in RandomDraws, dir \in UnitDirs, uR \in ShellDraws,
          dirTheta \in UnitDirs, uPhi \in PhiDraws :
          gen' = [gen EXCEPT !.written = TRUE,
                             !.treePos = FoliageTreePos(gen.i, u, dir),
                             !.scatterPos = FoliageScatterPos(uR, dirTheta, uPhi)]
    /\ UNCHANGED << panelVars, isFormed, blendVars >>

\* i++ and the loop test of either generator
CountOf(phase) == IF phase = "ornaments" THEN ORNAMENT_COUNT ELSE FOLIAGE_COUNT

NextIndex ==
    /\ gen.written
    /\ gen' = IF gen.i + 1 < CountOf(gen.phase)
              THEN [GenStart EXCEPT !.phase = gen.phase, !.i = gen.i + 1]
              ELSE IF gen.phase = "ornaments"
              THEN [GenStart EXCEPT !.phase = "foliage"]
              ELSE [GenStart EXCEPT !.phase = "done", !.i = gen.i + 1]
    /\ UNCHANGED << panelVars, isFormed, blendVars >>

NextGeom == generateOrnaments \/ generateFoliageAttributes \/ NextIndex

\* the generators do not depend on the API key
InitGeom == Init /\ apiKey = ""

SpecGeom == InitGeom /\ [][NextGeom]_vars

----------------------------------------------------------------------------
(* Properties of the wish panel, under Spec *)

\* a request's continuation runs in this step
Continues(id) ==
    /\ id \in DOMAIN requests
    /\ requests[id].status = "settled"
    /\ requests'[id].status = "done"

\* a non-empty prompt is submitted in this step
SubmitsWish == Submit /\ Trim(prompt) # <<>>

\* C1: when the outbound call raises, generateLuxuryWish's promise is not
\* rejected but fulfilled with "May elegance guide your way into the New
\* Year.", and the continuation of that request leaves the panel with
\* isLoading false, that string as text and no error.
C1_RaiseFallsBack ==
    [][\A id \in 1..MaxRequests :
         /\ (id \in DOMAIN requests' /\ requests'[id].outcome.kind = "raise")
               => requests'[id].settle = Fulfilled(ErrorWishMsg)
         /\ (Continues(id) /\ requests[id].outcome.kind = "raise")
               => wishState' = [isLoading |-> FALSE,
                                text |-> Some(ErrorWishMsg),
                                error |-> Null]]_vars

C1_Witness ==
    \E id \in DOMAIN requests :
        /\ requests[id].outcome.kind = "raise"
        /\ requests[id].status = "done"
        /\ wishState.text = Some(ErrorWishMsg)
        /\ ~wishState.isLoading

\* C2: with no API key, every submit of a non-empty prompt gets the promise
\* already fulfilled with "Experience the magic of the holidays. (API Key
\* missing)" when the call returns, and no outbound call is issued.
C2_NoKeyNoCall ==
    [][(apiKey = "" /\ SubmitsWish) =>
          /\ calls' = calls
          /\ Len(requests') = Len(requests) + 1
          /\ requests'[Len(requests')].status = "settled"
          /\ requests'[Len(requests')].settle = Fulfilled(MissingKeyMsg)]_vars

C2_Witness ==
    /\ apiKey = ""
    /\ calls = 0
    /\ requests # <<>>
    /\ requests[Len(requests)].status = "done"
    /\ wishState.text = Some(MissingKeyMsg)

\* C3: submitting an empty or whitespace-only prompt while isFormed is false
\* sets isFormed, issues no outbound call and leaves the wish state unchanged.
C3_EmptySubmitOnlyForms ==
    [][(Submit /\ Trim(prompt) = <<>> /\ ~isFormed) =>
          /\ isFormed'
          /\ calls' = calls
          /\ requests' = requests
          /\ wishState' = wishState]_vars

C3_Witness ==
    /\ isFormed
    /\ prompt = <<WS>>
    /\ requests = <<>>
    /\ calls = 0
    /\ wishState = IdleWish

\* C9 as stated: each submit of a non-empty prompt moves the panel to loading
\* with no text and no error left from the previous request, and each
\* continuation moves it to exactly one of success (text, no error) or error
\* (error, no text).
C9_SubmitResetsToIdle ==
    [][/\ SubmitsWish =>
            wishState' = [isLoading |-> TRUE, text |-> Null, error |-> Null]
       /\ \A id \in 1..MaxRequests : Continues(id) =>
            /\ ~wishState'.isLoading
            /\ (wishState'.text = Null) # (wishState'.error = Null)]_vars

\* C9 amended: each submit of a non-empty prompt sets isLoading and clears the
\* error but keeps the text of the previous request on display; each
\* continuation moves the panel to exactly one of success or error.
C9_SubmitKeepsText ==
    [][/\ SubmitsWish =>
            wishState' = [isLoading |-> TRUE, text |-> wishState.text,
                          error |-> Null]
       /\ \A id \in 1..MaxRequests : Continues(id) =>
            /\ ~wishState'.isLoading
            /\ (wishState'.text = Null) # (wishState'.error = Null)]_vars

C9_Witness ==
    /\ wishState.isLoading
    /\ wishState.text # Null
    /\ Len(requests) = 2
    /\ requests[1].status = "done"

\* C10: a submit made while a request is in flight starts another request and
\* cancels nothing (a request in flight stays in flight until it is answered),
\* and each continuation puts its own request's result on display, so the
\* text displayed in the end is that of the response that arrived last.
C10_LastResponseWins ==
    [][/\ \A id \in DOMAIN requests :
            requests[id].status = "inflight" =>
                requests'[id].status \in {"inflight", "settled"}
       /\ (SubmitsWish /\ apiKey # "") =>
            /\ Len(requests') = Len(requests) + 1
            /\ requests'[Len(requests')].status = "inflight"
            /\ calls' = calls + 1
       /\ \A id \in 1..MaxRequests : Continues(id) =>
            wishState'.text = Some(requests[id].settle.value)]_vars

C10_Witness ==
    /\ arrived = <<2, 1>>
    /\ requests[1].settle.value # requests[2].settle.value
    /\ wishState.text = Some(requests[1].settle.value)

\* C11: a failed call or a missing key never shows as an error: in every
\* reachable state wishState.error is null, and every continuation leaves a
\* non-empty sentence (one of the fixed ones or the generated one) as text.
C11_NeverSurfacesError ==
    /\ [](wishState.error = Null)
    /\ [][\A id \in 1..MaxRequests : Continues(id) =>
            /\ wishState'.text # Null
            /\ wishState'.text[1] # <<>>
            /\ wishState'.text[1] \in
                  {MissingKeyMsg, ErrorWishMsg, DefaultWishMsg}
                  \cup {Trim(o.text) : o \in {x \in Outcomes : x.kind = "text"}}]_vars

C11_Witness ==
    /\ Len(requests) = 2
    /\ requests[1].status = "done"
    /\ requests[1].outcome.kind = "raise"
    /\ requests[2].status = "done"
    /\ requests[2].outcome.kind = "notext"
    /\ wishState.error = Null
    /\ wishState.text = Some(DefaultWishMsg)

\* C12 as stated: whenever a wish text is displayed the tree is formed, under
\* any interleaving of submits, resets and arrivals of responses.
C12_TextImpliesFormed == wishState.text # Null => isFormed

\* a request has been issued and the panel has not yet run its continuation
Outstanding == \E id \in DOMAIN requests : requests[id].status # "done"

\* C13 as stated: isLoading is true exactly when some request issued by the
\* panel has not yet settled.
C13_LoadingTracksRequests == wishState.isLoading <=> Outstanding

----------------------------------------------------------------------------
(* Properties of the blend driver *)

Between(a, x, b) == (a <= x /\ x <= b) \/ (b <= x /\ x <= a)

\* C4 as stated, under SpecBlend: the progress stays in [0,1] and after each
\* tick lies between its previous value and the target.
C4_NeverOvershoots ==
    [][/\ progressRef' >= 0
       /\ progressRef' <= Scale
       /\ Between(progressRef, progressRef', Target)]_vars

\* C5, under SpecFixed: from progress 0, with the target held at 1 and ticks
\* of 1/60 s, the progress never decreases and is within 0.001 of 1 from the
\* ConvergeTicks-th tick on.
C5_MonotoneConverges ==
    /\ [][isFormed => progressRef' >= progressRef]_vars
    /\ [](isFormed /\ ticks >= ConvergeTicks
              => Scale - progressRef <= Scale \div 1000)

C5_Witness ==
    /\ isFormed
    /\ ticks = ConvergeTicks
    /\ progressRef < Scale
    /\ Scale - progressRef <= Scale \div 1000

\* C6 as stated, under SpecBlend: in every frame the progress the foliage layer
\* and the ornament layers place with is the driver's progress as updated in
\* the current or the preceding tick.
C6_LayersFollowBlend ==
    [][frames' = frames + 1 =>
          /\ uProgress' \in {progressRef, progressRef'}
          /\ ornProgress' \in {progressRef, progressRef'}]_vars

----------------------------------------------------------------------------
(* Properties of the geometry generators, under SpecGeom *)

\* squared distance of a formed position from the vertical axis
RadialSq(pos) == pos[1] * pos[1] + pos[3] * pos[3]

\* squared distance of a position from the origin
DistSq(pos) == pos[1] * pos[1] + pos[2] * pos[2] + pos[3] * pos[3]

HeightWithin(pos) ==
    /\ 2 * pos[2] >= -(TREE_HEIGHT * TreeUnit)
    /\ 2 * pos[2] <= TREE_HEIGHT * TreeUnit

RadialWithin(pos, bound) == RadialSq(pos) <= (5 * bound) * (5 * bound)

InShell(pos) ==
    /\ DistSq(pos) >= (25 * ShellMin) * (25 * ShellMin)
    /\ DistSq(pos) <= (25 * (ShellMin + ShellSpan)) * (25 * (ShellMin + ShellSpan))

\* C7 as stated: every formed position, of a foliage particle or an ornament,
\* has its height within [-H/2, H/2] and its radial distance at most the max
\* radius 5.5 plus the jitter bound 0.15.
C7_FormedWithinJitter ==
    gen.written =>
        /\ HeightWithin(gen.treePos)
        /\ RadialWithin(gen.treePos, TREE_RADIUS + JitterBound)

\* C7 amended: every formed position has its height within [-H/2, H/2]; the
\* radial distance of a foliage particle is at most 5.5 + 0.15 and that of an
\* ornament at most 5.5 + 0.2.
C7_FormedWithinCone ==
    gen.written =>
        /\ HeightWithin(gen.treePos)
        /\ gen.phase = "foliage" =>
              RadialWithin(gen.treePos, TREE_RADIUS + JitterBound)
        /\ gen.phase = "ornaments" =>
              RadialWithin(gen.treePos, TREE_RADIUS + OrnamentOffset)

C7_Witness ==
    /\ gen.written
    /\ gen.phase = "ornaments"
    /\ ~RadialWithin(gen.treePos, TREE_RADIUS + JitterBound)
    /\ RadialWithin(gen.treePos, TREE_RADIUS + OrnamentOffset)

\* C8 as stated: every scattered position, of a foliage particle or an
\* ornament, has its distance from the origin within [25, 45].
C8_ScatteredInShell == gen.written => InShell(gen.scatterPos)

\* C8 amended: every scattered position of a foliage particle has its
\* distance from the origin within [25, 45]; every coordinate of the scattered
\* position of an ornament is within [-15, 15].
C8_ScatteredInShellOrCube ==
    gen.written =>
        /\ gen.phase = "foliage" => InShell(gen.scatterPos)
        /\ gen.phase = "ornaments" =>
              \A k \in 1..3 :
                  /\ 2 * gen.scatterPos[k] >= -(Spread * ScatterUnit)
                  /\ 2 * gen.scatterPos[k] <= Spread * ScatterUnit

C8_Witness ==
    /\ gen.written
    /\ gen.phase = "ornaments"
    /\ ~InShell(gen.scatterPos)

====
